---------------------------- MODULE Spec2Model ----------------------------
(***************************************************************************)
(* Model of the fork-terminal coordination store (coordination.py), the    *)
(* tournament coordinator built on it (tournament.py, tournament_review.py)*)
(* and the multi-ai-review finding aggregator (aggregator.py).             *)
(*                                                                         *)
(* Specifications                                                          *)
(*   Spec       worker operations of the store, run by concurrent processes*)
(*   SeqSpec    the same operations, one call at a time                    *)
(*   TournSpec  tournament operations on one registered tournament,        *)
(*              run by concurrent processes                                *)
(*   TournSeqSpec  the tournament operations, one call at a time           *)
(*   RegSpec    register_tournament calls and the clock                    *)
(*   AggSpec    aggregate_findings applied to bounded per-agent findings   *)
(*   ReviewSpec run_parallel_reviews over requested agents (review_runner) *)
(*   ParseSpec  parse_cli_output over one agent's output file (result_parser)*)
(*   SimSpec    similarity_score over one pair of findings (aggregator)     *)
(*   TournLiveSpec tournament calls one at a time, repeated, with fairness   *)
(***************************************************************************)
EXTENDS Integers, Sequences, FiniteSets, TLC

VARIABLES
    file,        \* the store file .fork-terminal-workers.json: [state, snap]
    lock,        \* holder of the flock on the .lock file, or NoProc
    pc,          \* per process: position in the running operation
    call,        \* per process: the running operation and its arguments
    data,        \* per process: the dict loaded by load_coordination, as modified
    tmp,         \* per process: its mkstemp file: "none", "empty" or "full"
    cont,        \* per process: where the operation continues after save_coordination
    ret,         \* per process: the value the operation returns
    tourn,       \* per process: the TournamentInfo returned by get_tournament
    completion,  \* per process: the dict returned by check_tournament_completion
    now,         \* the wall clock, in ticks
    markers,     \* the workspaces (paths) in which DONE.md exists
    alive,       \* the process ids for which os.kill(pid, 0) succeeds
    nops,        \* number of operations started (bounded by MaxOps)
    hist,        \* history: what returned calls reported, for the properties
    agg,         \* the aggregator: [input, output]
    review,      \* the review run of review_runner.py: its inputs, files and results
    parse,       \* result_parser.py: the output file given to it and its findings
    sim          \* similarity_score: the two findings given to it and its score

vars == <<file, lock, pc, call, data, tmp, cont, ret, tourn, completion,
          now, markers, alive, nops, hist, agg, review, parse, sim>>

storeVars == <<file, lock, pc, call, data, tmp, cont, ret, tourn, completion,
               now, markers, alive, nops, hist>>

(***************************************************************************)
(* Bounds of the model                                                     *)
(***************************************************************************)
MaxOps == 3           \* operations started in one behaviour
MaxWorkers == 2       \* register_worker is not called on a store this long
MaxClock == 2         \* the clock stops ticking here
TicksPerSecond == 2   \* clock ticks in one second of int(time.time())

Procs == {"p1", "p2"}
NoProc == "none"
Paths == {"wt-a", "wt-b"}
Pids == {1, 2}

Max(S) == CHOOSE x \in S : \A y \in S : y <= x

SeqToSet(s) == {s[i] : i \in 1..Len(s)}

RECURSIVE SelectSeq2(_, _)
\* list comprehension [w for w in s if Keep(w)] with Keep given as a set
SelectSeq2(s, keep) ==
    IF s = <<>> THEN <<>>
    ELSE IF Head(s) \in keep THEN <<Head(s)>> \o SelectSeq2(Tail(s), keep)
         ELSE SelectSeq2(Tail(s), keep)

(***************************************************************************)
(* The store file and load_coordination                                    *)
(***************************************************************************)
\* the dict load_coordination returns when the file does not exist
\* ("tournaments" is absent there; data.get("tournaments", []) reads it as [])
EmptyStore == [workers |-> <<>>, tournaments |-> <<>>]

NoFile == [state |-> "absent", snap |-> EmptyStore]

\* json.load of the file fails on a file that is not one complete document
Readable(f) == f.state \in {"absent", "full"}

load_coordination(f) == IF f.state = "absent" THEN EmptyStore ELSE f.snap

WorkerInfo(id, path, pid) ==
    [id |-> id, path |-> path, status |-> "active", pid |-> pid]

get_next_worker_id_wrong(d) ==
    IF d.workers = <<>> THEN 1
    ELSE Max({d.workers[i].id : i \in 1..Len(d.workers)})

get_next_worker_id(d) ==
    IF d.workers = <<>> THEN 1
    ELSE Max({d.workers[i].id : i \in 1..Len(d.workers)}) + 1

\* the selector of unregister_worker and remove_worker; None, "" and 0 are falsy
Selected(w, path, worker_id) ==
    \/ path # "" /\ w.path = path
    \/ worker_id # 0 /\ w.id = worker_id

is_process_running(pid) == pid \in alive

NoCall == [op |-> "none", path |-> "", id |-> 0, pid |-> 0,
           tid |-> 0, wid |-> 0, done_file |-> "", idx |-> 0]
NoRet == [kind |-> "none", val |-> 0]
NoTourn == [found |-> FALSE]
NoCompletion == [complete |-> FALSE, total |-> 0, done |-> 0, pending |-> <<>>]

Idle(p) == pc[p] = "idle"
AllIdle == \A p \in Procs : Idle(p)


NoHist == [regLog |-> <<>>, onlyRegs |-> TRUE, removed |-> 0, sawPartial |-> FALSE,
           tasks |-> 0]

(***************************************************************************)
(* save_coordination(data): flock, mkstemp, json.dump, os.rename, unlock   *)
(***************************************************************************)
\* fcntl.flock(lock_f, LOCK_EX) blocks until no other process holds the lock
SaveLock(p) ==
    /\ pc[p] = "lock"
    /\ lock = NoProc
    /\ lock' = p
    /\ pc' = [pc EXCEPT ![p] = "mkstemp"]
    /\ UNCHANGED <<file, call, data, tmp, cont, ret, tourn, completion,
                   now, markers, alive, nops, hist, agg, review, parse, sim>>

\* a writer that opens the store file itself for writing instead of a temp file
SaveMkstempInPlace(p) ==
    /\ pc[p] = "mkstemp"
    /\ file' = [state |-> "empty", snap |-> EmptyStore]
    /\ pc' = [pc EXCEPT ![p] = "dump"]
    /\ UNCHANGED <<lock, call, data, tmp, cont, ret, tourn, completion,
                   now, markers, alive, nops, hist, agg, review, parse, sim>>

\* tempfile.mkstemp(dir=coord_dir): a new, empty file of this process alone
SaveMkstemp(p) ==
    /\ pc[p] = "mkstemp"
    /\ tmp' = [tmp EXCEPT ![p] = "empty"]
    /\ pc' = [pc EXCEPT ![p] = "dump"]
    /\ UNCHANGED <<file, lock, call, data, cont, ret, tourn, completion,
                   now, markers, alive, nops, hist, agg, review, parse, sim>>

\* json.dump(data, f) and the close of the temp file
SaveDump(p) ==
    /\ pc[p] = "dump"
    /\ tmp' = [tmp EXCEPT ![p] = "full"]
    /\ pc' = [pc EXCEPT ![p] = "rename"]
    /\ UNCHANGED <<file, lock, call, data, cont, ret, tourn, completion,
                   now, markers, alive, nops, hist, agg, review, parse, sim>>

\* os.rename(temp_path, coord_file): the file becomes the temp file's content
SaveRename(p) ==
    /\ pc[p] = "rename"
    /\ file' = [state |-> tmp[p], snap |-> data[p]]
    /\ tmp' = [tmp EXCEPT ![p] = "none"]
    /\ pc' = [pc EXCEPT ![p] = "unlock"]
    /\ UNCHANGED <<lock, call, data, cont, ret, tourn, completion,
                   now, markers, alive, nops, hist, agg, review, parse, sim>>

\* mkstemp, the write or the rename raises: the except clause unlinks the temp
\* file (when there is one) and re-raises
SaveFail(p) ==
    /\ pc[p] \in {"mkstemp", "dump", "rename"}
    /\ tmp' = [tmp EXCEPT ![p] = "none"]
    /\ pc' = [pc EXCEPT ![p] = "unlock_raise"]
    /\ UNCHANGED <<file, lock, call, data, cont, ret, tourn, completion,
                   now, markers, alive, nops, hist, agg, review, parse, sim>>

\* finally: fcntl.flock(lock_f, LOCK_UN); save_coordination returns
SaveUnlock(p) ==
    /\ pc[p] = "unlock"
    /\ lock' = NoProc
    /\ pc' = [pc EXCEPT ![p] = cont[p]]
    /\ cont' = [cont EXCEPT ![p] = "idle"]
    /\ data' = [data EXCEPT ![p] = EmptyStore]
    /\ UNCHANGED <<file, call, tmp, ret, tourn, completion,
                   now, markers, alive, nops, hist, agg, review, parse, sim>>

\* an exception path that leaves save_coordination without the finally clause
SaveRaiseNoUnlock(p) ==
    /\ pc[p] = "unlock_raise"
    /\ pc' = [pc EXCEPT ![p] = "idle"]
    /\ cont' = [cont EXCEPT ![p] = "idle"]
    /\ data' = [data EXCEPT ![p] = EmptyStore]
    /\ call' = [call EXCEPT ![p] = NoCall]
    /\ ret' = [ret EXCEPT ![p] = NoRet]
    /\ tourn' = [tourn EXCEPT ![p] = NoTourn]
    /\ completion' = [completion EXCEPT ![p] = NoCompletion]
    /\ UNCHANGED <<file, lock, tmp, now, markers, alive, nops, hist, agg, review, parse, sim>>

\* finally: fcntl.flock(lock_f, LOCK_UN); the exception leaves the operation
SaveUnlockRaise(p) ==
    /\ pc[p] = "unlock_raise"
    /\ lock' = NoProc
    /\ pc' = [pc EXCEPT ![p] = "idle"]
    /\ cont' = [cont EXCEPT ![p] = "idle"]
    /\ data' = [data EXCEPT ![p] = EmptyStore]
    /\ call' = [call EXCEPT ![p] = NoCall]
    /\ ret' = [ret EXCEPT ![p] = NoRet]
    /\ tourn' = [tourn EXCEPT ![p] = NoTourn]
    /\ completion' = [completion EXCEPT ![p] = NoCompletion]
    /\ UNCHANGED <<file, tmp, now, markers, alive, nops, hist, agg, review, parse, sim>>

save_coordination(p) ==
    \/ SaveLock(p)
    \/ SaveMkstemp(p)
    \/ SaveDump(p)
    \/ SaveRename(p)
    \/ SaveFail(p)
    \/ SaveUnlock(p)
    \/ SaveUnlockRaise(p)

\* save_coordination when the file system does not fail (the failing runs are
\* those of Spec and SeqSpec)
save_coordination_ok(p) ==
    \/ SaveLock(p)
    \/ SaveMkstemp(p)
    \/ SaveDump(p)
    \/ SaveRename(p)
    \/ SaveUnlock(p)

(***************************************************************************)
(* Worker operations.  Each starts with load_coordination(), outside the   *)
(* lock, computes the new dict and (when it changed) calls                 *)
(* save_coordination.  A load of an unreadable file raises.                *)
(***************************************************************************)
\* the operation ends in load_coordination's json.load raising
LoadRaises(p) ==
    /\ hist' = [hist EXCEPT !.sawPartial = TRUE]
    /\ UNCHANGED <<pc, call, data, cont, ret>>

\* the operation goes on to save_coordination(d) and will return r
ThenSave(p, c, d, r) ==
    /\ call' = [call EXCEPT ![p] = c]
    /\ data' = [data EXCEPT ![p] = d]
    /\ ret' = [ret EXCEPT ![p] = r]
    /\ pc' = [pc EXCEPT ![p] = "lock"]
    /\ cont' = [cont EXCEPT ![p] = "return"]

\* the operation returns r without saving
ThenReturn(p, c, r) ==
    /\ call' = [call EXCEPT ![p] = c]
    /\ ret' = [ret EXCEPT ![p] = r]
    /\ pc' = [pc EXCEPT ![p] = "return"]
    /\ UNCHANGED <<data, cont>>

register_worker(p) ==
    \E path \in Paths, pid \in {0} \cup Pids :
        /\ Idle(p)
        /\ nops < MaxOps
        /\ nops' = nops + 1
        /\ IF ~Readable(file) THEN LoadRaises(p)
           ELSE LET d == load_coordination(file)
                    worker_id == get_next_worker_id(d)
                    worker == WorkerInfo(worker_id, path, pid)
                IN  /\ Len(d.workers) < MaxWorkers
                    /\ ThenSave(p, [NoCall EXCEPT !.op = "register_worker",
                                                  !.path = path, !.pid = pid],
                                [d EXCEPT !.workers = Append(@, worker)],
                                [kind |-> "id", val |-> worker_id])
                    /\ UNCHANGED hist
        /\ UNCHANGED <<file, lock, tmp, tourn, completion, now, markers, alive, agg, review, parse, sim>>

\* a search that passes over the workers already stopped
FirstSelectedActive(ws, path, worker_id) ==
    LET hits == {i \in 1..Len(ws) : /\ Selected(ws[i], path, worker_id)
                                    /\ ws[i].status = "active"}
    IN  IF hits = {} THEN 0 ELSE CHOOSE i \in hits : \A j \in hits : i <= j

\* index of the first worker the selector matches, 0 when there is none
FirstSelected(ws, path, worker_id) ==
    LET hits == {i \in 1..Len(ws) : Selected(ws[i], path, worker_id)}
    IN  IF hits = {} THEN 0 ELSE CHOOSE i \in hits : \A j \in hits : i <= j

\* the selectors the callers pass: a path alone or an id alone
Selectors == {[path |-> x, id |-> 0] : x \in Paths}
             \cup {[path |-> "", id |-> i] : i \in 1..MaxWorkers}

unregister_worker(p) ==
    \E sel \in Selectors :
        /\ Idle(p)
        /\ nops < MaxOps
        /\ nops' = nops + 1
        /\ IF ~Readable(file) THEN LoadRaises(p)
           ELSE LET d == load_coordination(file)
                    i == FirstSelected(d.workers, sel.path, sel.id)
                    c == [NoCall EXCEPT !.op = "unregister_worker",
                                        !.path = sel.path, !.id = sel.id]
                IN  /\ IF i # 0
                       THEN ThenSave(p, c, [d EXCEPT !.workers[i].status = "stopped"],
                                     [kind |-> "bool", val |-> 1])
                       ELSE ThenReturn(p, c, [kind |-> "bool", val |-> 0])
                    /\ hist' = [hist EXCEPT !.onlyRegs = FALSE]
        /\ UNCHANGED <<file, lock, tmp, tourn, completion, now, markers, alive, agg, review, parse, sim>>

remove_worker(p) ==
    \E sel \in Selectors :
        /\ Idle(p)
        /\ nops < MaxOps
        /\ nops' = nops + 1
        /\ IF ~Readable(file) THEN LoadRaises(p)
           ELSE LET d == load_coordination(file)
                    keep == {w \in SeqToSet(d.workers) : ~Selected(w, sel.path, sel.id)}
                    rest == SelectSeq2(d.workers, keep)
                    c == [NoCall EXCEPT !.op = "remove_worker",
                                        !.path = sel.path, !.id = sel.id]
                IN  /\ IF Len(rest) < Len(d.workers)
                       THEN ThenSave(p, c, [d EXCEPT !.workers = rest],
                                     [kind |-> "removed", val |-> Len(d.workers) - Len(rest)])
                       ELSE ThenReturn(p, c, [kind |-> "removed", val |-> 0])
                    /\ hist' = [hist EXCEPT !.onlyRegs = FALSE]
        /\ UNCHANGED <<file, lock, tmp, tourn, completion, now, markers, alive, agg, review, parse, sim>>

\* a test that does not ask for a recorded pid
StaleAnyPid(w) == w.status = "active" /\ ~is_process_running(w.pid)

\* the workers cleanup_stale_workers stops: active, with a pid, not running
Stale(w) == w.status = "active" /\ w.pid # 0 /\ ~is_process_running(w.pid)

cleanup_stale_workers(p) ==
    /\ Idle(p)
    /\ nops < MaxOps
    /\ nops' = nops + 1
    /\ IF ~Readable(file) THEN LoadRaises(p)
       ELSE LET d == load_coordination(file)
                ws == [i \in 1..Len(d.workers) |->
                          IF Stale(d.workers[i])
                          THEN [d.workers[i] EXCEPT !.status = "stopped"]
                          ELSE d.workers[i]]
                cleaned == Cardinality({i \in 1..Len(d.workers) : Stale(d.workers[i])})
                c == [NoCall EXCEPT !.op = "cleanup_stale_workers"]
            IN  /\ IF cleaned > 0
                   THEN ThenSave(p, c, [d EXCEPT !.workers = ws],
                                 [kind |-> "count", val |-> cleaned])
                   ELSE ThenReturn(p, c, [kind |-> "count", val |-> 0])
                /\ hist' = [hist EXCEPT !.onlyRegs = FALSE]
    /\ UNCHANGED <<file, lock, tmp, tourn, completion, now, markers, alive, agg, review, parse, sim>>

\* a reader that takes no lock; it returns the number of workers it read
list_all_workers(p) ==
    /\ Idle(p)
    /\ nops < MaxOps
    /\ nops' = nops + 1
    /\ IF ~Readable(file) THEN LoadRaises(p)
       ELSE /\ ThenReturn(p, [NoCall EXCEPT !.op = "list_all_workers"],
                          [kind |-> "count", val |-> Len(load_coordination(file).workers)])
            /\ UNCHANGED hist
    /\ UNCHANGED <<file, lock, tmp, tourn, completion, now, markers, alive, agg, review, parse, sim>>

\* the operation returns to its caller
Return(p) ==
    /\ pc[p] = "return"
    /\ hist' = [hist EXCEPT
                  !.regLog = IF call[p].op = "register_worker"
                             THEN Append(@, ret[p].val) ELSE @,
                  !.removed = IF call[p].op = "remove_worker"
                              THEN @ + ret[p].val ELSE @]
    /\ pc' = [pc EXCEPT ![p] = "idle"]
    /\ call' = [call EXCEPT ![p] = NoCall]
    /\ ret' = [ret EXCEPT ![p] = NoRet]
    /\ tourn' = [tourn EXCEPT ![p] = NoTourn]
    /\ completion' = [completion EXCEPT ![p] = NoCompletion]
    /\ UNCHANGED <<file, lock, data, tmp, cont, now, markers, alive, nops, agg, review, parse, sim>>

\* a recorded process exits
ProcessExits ==
    \E pid \in alive :
        /\ alive' = alive \ {pid}
        /\ UNCHANGED <<file, lock, pc, call, data, tmp, cont, ret, tourn,
                       completion, now, markers, nops, hist, agg, review, parse, sim>>

NoAgg == [input |-> <<>>, output |-> [done |-> FALSE]]

\* similarity_score has not been called
NoSim == [pc |-> "idle"]

\* parse_cli_output has not been called
NoParse == [pc |-> "idle", cli |-> "", output_file |-> [state |-> "absent"],
            findings |-> <<>>]

\* no review run has started
NoReview == [pc |-> "idle", clis |-> <<>>, installed |-> {}, prompt |-> [text |-> "", len |-> 0],
             available_clis |-> <<>>, missing_clis |-> <<>>, launched |-> {},
             pending |-> {}, results |-> <<>>,
             metadata |-> [written |-> FALSE], outputs |-> <<>>,
             ret |-> [returned |-> FALSE]]

StoreInit ==
    /\ file = NoFile
    /\ lock = NoProc
    /\ pc = [p \in Procs |-> "idle"]
    /\ call = [p \in Procs |-> NoCall]
    /\ data = [p \in Procs |-> EmptyStore]
    /\ tmp = [p \in Procs |-> "none"]
    /\ cont = [p \in Procs |-> "idle"]
    /\ ret = [p \in Procs |-> NoRet]
    /\ tourn = [p \in Procs |-> NoTourn]
    /\ completion = [p \in Procs |-> NoCompletion]
    /\ now = 0
    /\ markers = {}
    /\ alive = Pids
    /\ nops = 0
    /\ hist = NoHist

Init ==
    /\ StoreInit
    /\ agg = NoAgg
    /\ review = NoReview
    /\ parse = NoParse
    /\ sim = NoSim

WorkerStep(p) ==
    \/ register_worker(p)
    \/ unregister_worker(p)
    \/ remove_worker(p)
    \/ cleanup_stale_workers(p)
    \/ list_all_workers(p)
    \/ save_coordination(p)
    \/ Return(p)

Next ==
    \/ \E p \in Procs : WorkerStep(p)
    \/ ProcessExits

Spec == Init /\ [][Next]_vars

\* one call at a time: a process takes a step only while every other is idle
SeqNext ==
    \/ \E p \in Procs : (\A q \in Procs \ {p} : Idle(q)) /\ WorkerStep(p)
    \/ ProcessExits

SeqSpec == Init /\ [][SeqNext]_vars

(***************************************************************************)
(* Tournaments (coordination.py, tournament.py, tournament_review.py)      *)
(***************************************************************************)
TWorkerIds == {1, 2}
\* os.path.join(worker.path, "DONE.md"), the marker file every caller passes
DoneFile == "DONE.md"

\* int(time.time())
time_time == now \div TicksPerSecond

\* the worktree of worker w of the k-th tournament spawned
WorkspacePath(k, w) == [task |-> k, w |-> w]

\* the worker dicts spawn_tournament passes: worker_id i+1 for the i-th CLI
worker_data(k) == [i \in 1..Cardinality(TWorkerIds) |->
                      [worker_id |-> i, path |-> WorkspacePath(k, i)]]

\* the tournament dict register_tournament appends
NewTournament(tournament_id, workers) ==
    [id |-> tournament_id,
     status |-> "running",
     workers |-> [i \in 1..Len(workers) |->
                     [worker_id |-> workers[i].worker_id,
                      path |-> workers[i].path,
                      done |-> FALSE,
                      done_file |-> "",
                      completed_at |-> -1]],
     combined_branch |-> ""]

\* index of the first tournament with this id, 0 when there is none
FindTournament(d, tournament_id) ==
    LET hits == {i \in 1..Len(d.tournaments) : d.tournaments[i].id = tournament_id}
    IN  IF hits = {} THEN 0 ELSE CHOOSE i \in hits : \A j \in hits : i <= j

get_tournament(d, tournament_id) ==
    LET i == FindTournament(d, tournament_id)
    IN  IF i = 0 THEN NoTourn ELSE [found |-> TRUE, t |-> d.tournaments[i]]

\* a check that never finds a tournament complete
check_tournament_completion_never(d, tournament_id) ==
    LET tournament == get_tournament(d, tournament_id)
    IN  IF ~tournament.found THEN NoCompletion
        ELSE LET ws == tournament.t.workers
                 done_count == Cardinality({i \in 1..Len(ws) : ws[i].done})
                 notDone == {ws[i] : i \in {j \in 1..Len(ws) : ~ws[j].done}}
             IN  [complete |-> FALSE,
                  total |-> Len(ws),
                  done |-> done_count,
                  pending |-> SelectSeq2([i \in 1..Len(ws) |-> ws[i]], notDone)]

check_tournament_completion(d, tournament_id) ==
    LET tournament == get_tournament(d, tournament_id)
    IN  IF ~tournament.found THEN NoCompletion
        ELSE LET ws == tournament.t.workers
                 done_count == Cardinality({i \in 1..Len(ws) : ws[i].done})
                 notDone == {ws[i] : i \in {j \in 1..Len(ws) : ~ws[j].done}}
             IN  [complete |-> done_count = Len(ws),
                  total |-> Len(ws),
                  done |-> done_count,
                  pending |-> SelectSeq2([i \in 1..Len(ws) |-> ws[i]], notDone)]

\* update_tournament's loop: the first tournament with the id gets the updates;
\* [found, d]
update_tournament(d, tournament_id, setStatus, status, setBranch, branch) ==
    LET i == FindTournament(d, tournament_id)
    IN  IF i = 0 THEN [found |-> FALSE, d |-> d]
        ELSE [found |-> TRUE,
              d |-> [d EXCEPT !.tournaments[i].status =
                                  IF setStatus THEN status ELSE @,
                              !.tournaments[i].combined_branch =
                                  IF setBranch THEN branch ELSE @]]

\* the (tournament, worker) positions mark_tournament_worker_done's loops visit
\* that match; the first one, in list order, is marked
MarkTargets(d, tournament_id, worker_id) ==
    {<<i, j>> \in (1..Len(d.tournaments)) \X (1..Cardinality(TWorkerIds)) :
        /\ d.tournaments[i].id = tournament_id
        /\ j <= Len(d.tournaments[i].workers)
        /\ d.tournaments[i].workers[j].worker_id = worker_id}

FirstTarget(S) ==
    CHOOSE x \in S : \A y \in S : x[1] < y[1] \/ (x[1] = y[1] /\ x[2] <= y[2])

\* mark_tournament_worker_done's change of the loaded dict; [found, d]
mark_tournament_worker_done(d, tournament_id, worker_id, done_file, at) ==
    LET S == MarkTargets(d, tournament_id, worker_id)
    IN  IF S = {} THEN [found |-> FALSE, d |-> d]
        ELSE LET x == FirstTarget(S)
             IN  [found |-> TRUE,
                  d |-> [d EXCEPT !.tournaments[x[1]].workers[x[2]] =
                            [@ EXCEPT !.done = TRUE,
                                      !.done_file = done_file,
                                      !.completed_at = at]]]

\* the ids of the tournaments in the store: the ids callers pass
KnownTournamentIds == {load_coordination(file).tournaments[i].id :
                          i \in 1..Len(load_coordination(file).tournaments)}

\* an exception leaves the running operation (nothing is held at these points)
AbortOp(p) ==
    /\ pc' = [pc EXCEPT ![p] = "idle"]
    /\ call' = [call EXCEPT ![p] = NoCall]
    /\ ret' = [ret EXCEPT ![p] = NoRet]
    /\ tourn' = [tourn EXCEPT ![p] = NoTourn]
    /\ completion' = [completion EXCEPT ![p] = NoCompletion]
    /\ UNCHANGED <<data, cont>>

register_tournament(p) ==
    /\ Idle(p)
    /\ nops < MaxOps
    /\ nops' = nops + 1
    /\ IF ~Readable(file) THEN LoadRaises(p) /\ UNCHANGED <<tourn, completion>>
       ELSE LET d == load_coordination(file)
                tournament_id == time_time
                tournament == NewTournament(tournament_id, worker_data(hist.tasks + 1))
            IN  /\ ThenSave(p, [NoCall EXCEPT !.op = "register_tournament"],
                            [d EXCEPT !.tournaments = Append(@, tournament)],
                            [kind |-> "tid", val |-> tournament_id])
                /\ hist' = [hist EXCEPT !.tasks = @ + 1]
                /\ UNCHANGED <<tourn, completion>>
    /\ UNCHANGED <<file, lock, tmp, now, markers, alive, agg, review, parse, sim>>

\* a direct call of mark_tournament_worker_done(tournament_id, worker_id, done_file)
MarkTournamentWorkerDone(p) ==
    \E tid \in KnownTournamentIds, wid \in TWorkerIds :
        /\ Idle(p)
        /\ nops < MaxOps
        /\ nops' = nops + 1
        /\ IF ~Readable(file) THEN LoadRaises(p)
           ELSE LET r == mark_tournament_worker_done(load_coordination(file), tid, wid,
                                                     DoneFile, now)
                    c == [NoCall EXCEPT !.op = "mark_tournament_worker_done",
                                        !.tid = tid, !.wid = wid,
                                        !.done_file = DoneFile]
                IN  /\ IF r.found
                       THEN ThenSave(p, c, r.d, [kind |-> "bool", val |-> 1])
                       ELSE ThenReturn(p, c, [kind |-> "bool", val |-> 0])
                    /\ UNCHANGED hist
        /\ UNCHANGED <<file, lock, tmp, tourn, completion, now, markers, alive, agg, review, parse, sim>>

(* get_tournament_status(tournament_id) *)
\* tournament = get_tournament(tournament_id); the first
\* check_tournament_completion, whose result the second one replaces
GtsStart(p) ==
    \E tid \in KnownTournamentIds :
        /\ Idle(p)
        /\ nops < MaxOps
        /\ nops' = nops + 1
        /\ IF ~Readable(file)
           THEN LoadRaises(p) /\ UNCHANGED tourn
           ELSE LET tournament == get_tournament(load_coordination(file), tid)
                    c == [NoCall EXCEPT !.op = "get_tournament_status",
                                        !.tid = tid, !.idx = 1]
                IN  /\ IF ~tournament.found
                       THEN ThenReturn(p, c, [kind |-> "error", val |-> 0])
                            /\ UNCHANGED tourn
                       ELSE /\ call' = [call EXCEPT ![p] = c]
                            /\ tourn' = [tourn EXCEPT ![p] = tournament]
                            /\ pc' = [pc EXCEPT ![p] = "gts_loop"]
                            /\ UNCHANGED <<data, cont, ret>>
                    /\ UNCHANGED hist
        /\ UNCHANGED <<file, lock, tmp, completion, now, markers, alive, agg, review, parse, sim>>

\* one iteration of "for worker in tournament.workers": DONE.md exists and the
\* worker (as loaded at the start) is not done: mark_tournament_worker_done
GtsLoop(p) ==
    /\ pc[p] = "gts_loop"
    /\ call[p].idx <= Len(tourn[p].t.workers)
    /\ LET worker == tourn[p].t.workers[call[p].idx]
           next == [call EXCEPT ![p].idx = @ + 1]
       IN  IF worker.path \in markers /\ ~worker.done
           THEN IF ~Readable(file)
                THEN AbortOp(p) /\ hist' = [hist EXCEPT !.sawPartial = TRUE]
                ELSE LET r == mark_tournament_worker_done(load_coordination(file),
                                  call[p].tid, worker.worker_id, DoneFile, now)
                     IN  /\ call' = next
                         /\ IF r.found
                            THEN /\ data' = [data EXCEPT ![p] = r.d]
                                 /\ pc' = [pc EXCEPT ![p] = "lock"]
                                 /\ cont' = [cont EXCEPT ![p] = "gts_loop"]
                            ELSE UNCHANGED <<data, pc, cont>>
                         /\ UNCHANGED <<ret, tourn, completion, hist>>
           ELSE /\ call' = next
                /\ UNCHANGED <<data, pc, cont, ret, tourn, completion, hist>>
    /\ UNCHANGED <<file, lock, tmp, now, markers, alive, nops, agg, review, parse, sim>>

\* the report: tournament and workers as loaded at the start, completion as
\* check_tournament_completion finds it now
StatusReport(tournament, c) ==
    [kind |-> "report",
     status |-> tournament.t.status,
     workers |-> [i \in 1..Len(tournament.t.workers) |->
                     [worker_id |-> tournament.t.workers[i].worker_id,
                      done |-> tournament.t.workers[i].done]],
     completion |-> c]

\* completion = check_tournament_completion(tournament_id); return {...}
GtsFinal(p) ==
    /\ pc[p] = "gts_loop"
    /\ call[p].idx > Len(tourn[p].t.workers)
    /\ IF ~Readable(file)
       THEN AbortOp(p) /\ hist' = [hist EXCEPT !.sawPartial = TRUE]
       ELSE LET c == check_tournament_completion(load_coordination(file), call[p].tid)
            IN  /\ completion' = [completion EXCEPT ![p] = c]
                /\ ret' = [ret EXCEPT ![p] = StatusReport(tourn[p], c)]
                /\ pc' = [pc EXCEPT ![p] = "return"]
                /\ UNCHANGED <<call, data, cont, tourn, hist>>
    /\ UNCHANGED <<file, lock, tmp, now, markers, alive, nops, agg, review, parse, sim>>

(* generate_review_report(tournament_id) *)
\* tournament = get_tournament(tournament_id), or ValueError
GrrStart(p) ==
    \E tid \in KnownTournamentIds :
        /\ Idle(p)
        /\ nops < MaxOps
        /\ nops' = nops + 1
        /\ IF ~Readable(file)
           THEN LoadRaises(p) /\ UNCHANGED tourn
           ELSE LET tournament == get_tournament(load_coordination(file), tid)
                IN  /\ IF ~tournament.found
                       THEN UNCHANGED <<pc, call, tourn>>
                       ELSE /\ call' = [call EXCEPT ![p] =
                                   [NoCall EXCEPT !.op = "generate_review_report",
                                                  !.tid = tid]]
                            /\ tourn' = [tourn EXCEPT ![p] = tournament]
                            /\ pc' = [pc EXCEPT ![p] = "grr_check"]
                    /\ UNCHANGED <<data, cont, ret, hist>>
        /\ UNCHANGED <<file, lock, tmp, completion, now, markers, alive, agg, review, parse, sim>>

\* completion = check_tournament_completion(tournament_id), then
\* gather_solutions(tournament_id), which only reads
GrrCheck(p) ==
    /\ pc[p] = "grr_check"
    /\ IF ~Readable(file)
       THEN AbortOp(p) /\ hist' = [hist EXCEPT !.sawPartial = TRUE]
       ELSE LET c == check_tournament_completion(load_coordination(file), call[p].tid)
            IN  /\ completion' = [completion EXCEPT ![p] = c]
                /\ pc' = [pc EXCEPT ![p] = "grr_update"]
                /\ UNCHANGED <<call, data, cont, ret, tourn, hist>>
    /\ UNCHANGED <<file, lock, tmp, now, markers, alive, nops, agg, review, parse, sim>>

\* if completion["complete"]: update_tournament(id, {"status": "reviewing"});
\* return report
GrrUpdate(p) ==
    /\ pc[p] = "grr_update"
    /\ LET report == StatusReport(tourn[p], completion[p])
       IN  IF completion[p].complete
           THEN IF ~Readable(file)
                THEN AbortOp(p) /\ hist' = [hist EXCEPT !.sawPartial = TRUE]
                ELSE LET r == update_tournament(load_coordination(file), call[p].tid,
                                                TRUE, "reviewing", FALSE, "")
                     IN  /\ ret' = [ret EXCEPT ![p] = report]
                         /\ IF r.found
                            THEN /\ data' = [data EXCEPT ![p] = r.d]
                                 /\ pc' = [pc EXCEPT ![p] = "lock"]
                                 /\ cont' = [cont EXCEPT ![p] = "return"]
                            ELSE /\ pc' = [pc EXCEPT ![p] = "return"]
                                 /\ UNCHANGED <<data, cont>>
                         /\ UNCHANGED <<call, tourn, completion, hist>>
           ELSE /\ ret' = [ret EXCEPT ![p] = report]
                /\ pc' = [pc EXCEPT ![p] = "return"]
                /\ UNCHANGED <<call, data, cont, tourn, completion, hist>>
    /\ UNCHANGED <<file, lock, tmp, now, markers, alive, nops, agg, review, parse, sim>>

(* create_combined_branch(tournament_id) *)
\* tournament = get_tournament(tournament_id), or ValueError
CcbStart(p) ==
    \E tid \in KnownTournamentIds :
        /\ Idle(p)
        /\ nops < MaxOps
        /\ nops' = nops + 1
        /\ IF ~Readable(file)
           THEN LoadRaises(p) /\ UNCHANGED tourn
           ELSE LET tournament == get_tournament(load_coordination(file), tid)
                IN  /\ IF ~tournament.found
                       THEN UNCHANGED <<pc, call, tourn>>
                       ELSE /\ call' = [call EXCEPT ![p] =
                                   [NoCall EXCEPT !.op = "create_combined_branch",
                                                  !.tid = tid]]
                            /\ tourn' = [tourn EXCEPT ![p] = tournament]
                            /\ pc' = [pc EXCEPT ![p] = "ccb_update"]
                    /\ UNCHANGED <<data, cont, ret, hist>>
        /\ UNCHANGED <<file, lock, tmp, completion, now, markers, alive, agg, review, parse, sim>>

\* a git command run with check=True fails: CalledProcessError leaves the call
CcbGitFails(p) ==
    /\ pc[p] = "ccb_update"
    /\ AbortOp(p)
    /\ UNCHANGED <<file, lock, tmp, now, markers, alive, nops, hist, agg, review, parse, sim>>

\* update_tournament(id, {"combined_branch": branch_name, "status": "complete"})
CcbUpdate(p) ==
    /\ pc[p] = "ccb_update"
    /\ IF ~Readable(file)
       THEN AbortOp(p) /\ hist' = [hist EXCEPT !.sawPartial = TRUE]
       ELSE LET r == update_tournament(load_coordination(file), call[p].tid,
                                       TRUE, "complete", TRUE, "combined")
            IN  /\ ret' = [ret EXCEPT ![p] = [kind |-> "branch", val |-> 0]]
                /\ IF r.found
                   THEN /\ data' = [data EXCEPT ![p] = r.d]
                        /\ pc' = [pc EXCEPT ![p] = "lock"]
                        /\ cont' = [cont EXCEPT ![p] = "return"]
                   ELSE /\ pc' = [pc EXCEPT ![p] = "return"]
                        /\ UNCHANGED <<data, cont>>
                /\ UNCHANGED <<call, tourn, completion, hist>>
    /\ UNCHANGED <<file, lock, tmp, now, markers, alive, nops, agg, review, parse, sim>>

\* the workspaces of the tournaments in the store
TournamentPaths ==
    LET ts == load_coordination(file).tournaments
    IN  UNION {{ts[i].workers[j].path : j \in 1..Len(ts[i].workers)} : i \in 1..Len(ts)}

\* an agent finishes and writes DONE.md in its workspace
CreateMarker ==
    \E path \in TournamentPaths \ markers :
        /\ markers' = markers \cup {path}
        /\ UNCHANGED <<file, lock, pc, call, data, tmp, cont, ret, tourn,
                       completion, now, alive, nops, hist, agg, review, parse, sim>>

\* time passes
Tick ==
    /\ now < MaxClock
    /\ now' = now + 1
    /\ UNCHANGED <<file, lock, pc, call, data, tmp, cont, ret, tourn,
                   completion, markers, alive, nops, hist, agg, review, parse, sim>>

\* the store as spawn_tournament's register_tournament call leaves it
TournInit ==
    /\ file = [state |-> "full",
               snap |-> [EmptyStore EXCEPT
                           !.tournaments = <<NewTournament(0, worker_data(1))>>]]
    /\ lock = NoProc
    /\ pc = [p \in Procs |-> "idle"]
    /\ call = [p \in Procs |-> NoCall]
    /\ data = [p \in Procs |-> EmptyStore]
    /\ tmp = [p \in Procs |-> "none"]
    /\ cont = [p \in Procs |-> "idle"]
    /\ ret = [p \in Procs |-> NoRet]
    /\ tourn = [p \in Procs |-> NoTourn]
    /\ completion = [p \in Procs |-> NoCompletion]
    /\ now = 0
    /\ markers = {}
    /\ alive = Pids
    /\ nops = 0
    /\ hist = [NoHist EXCEPT !.tasks = 1]
    /\ agg = NoAgg
    /\ review = NoReview
    /\ parse = NoParse
    /\ sim = NoSim

TournStep(p) ==
    \/ MarkTournamentWorkerDone(p)
    \/ GtsStart(p)
    \/ GtsLoop(p)
    \/ GtsFinal(p)
    \/ GrrStart(p)
    \/ GrrCheck(p)
    \/ GrrUpdate(p)
    \/ CcbStart(p)
    \/ CcbGitFails(p)
    \/ CcbUpdate(p)
    \/ save_coordination_ok(p)
    \/ Return(p)

TournNext ==
    \/ \E p \in Procs : TournStep(p)
    \/ CreateMarker
    \/ Tick

TournSpec == TournInit /\ [][TournNext]_vars

RegNext ==
    \/ \E p \in Procs : register_tournament(p) \/ save_coordination_ok(p) \/ Return(p)
    \/ Tick

RegSpec == Init /\ [][RegNext]_vars

(***************************************************************************)
(* The finding aggregator (aggregator.py).  agg.input is the dict          *)
(* "findings" of aggregate_findings: one entry per available CLI, in the   *)
(* order of metadata["available_clis"], each with the list parse_cli_output*)
(* returned for it.  A finding is [source, category, severity, file, line, *)
(* tokens]; tokens is _tokenize_description(description); file "" and      *)
(* line 0 stand for a missing file and line.                               *)
(***************************************************************************)
MaxFindings == 3      \* findings in one review, over all CLIs

\* the CLIs result_parser has a parser for; each parser sets "source" to its CLI
Clis == {"claude", "gemini", "codex"}

\* the description tokens of the findings drawn: a finding's description names
\* its category
DescriptionTokens(category) ==
    IF category = "security" THEN {"sql", "injection"} ELSE {"duplicate", "code"}

\* the findings a parser may return for a CLI
Findings(cli) ==
    {[source |-> cli, category |-> c, severity |-> v, file |-> f, line |-> 10,
      tokens |-> DescriptionTokens(c)] :
        c \in {"security", "quality"}, v \in {"critical", "minor"},
        f \in {"src/x.ts", "src/y.ts"}}

\* a score that gives an exact line match no more than a close one
TenthsCloseOnly(finding1, finding2) ==
    LET line_diff == IF finding1.line >= finding2.line
                     THEN finding1.line - finding2.line
                     ELSE finding2.line - finding1.line
    IN  (IF finding1.file # "" /\ finding2.file # "" /\ finding1.file = finding2.file
         THEN 4 + (IF finding1.line # 0 /\ finding2.line # 0
                   THEN IF line_diff <= 5 THEN 2
                        ELSE IF line_diff <= 10 THEN 1 ELSE 0
                   ELSE 0)
         ELSE 0)
        + (IF finding1.category = finding2.category THEN 2 ELSE 0)
        + (IF finding1.severity = finding2.severity THEN 1 ELSE 0)

\* the contributions to the score, in tenths, without the description overlap
Tenths(finding1, finding2) ==
    LET line_diff == IF finding1.line >= finding2.line
                     THEN finding1.line - finding2.line
                     ELSE finding2.line - finding1.line
    IN  (IF finding1.file # "" /\ finding2.file # "" /\ finding1.file = finding2.file
         THEN 4 + (IF finding1.line # 0 /\ finding2.line # 0
                   THEN IF line_diff = 0 THEN 3
                        ELSE IF line_diff <= 5 THEN 2
                        ELSE IF line_diff <= 10 THEN 1 ELSE 0
                   ELSE 0)
         ELSE 0)
        + (IF finding1.category = finding2.category THEN 2 ELSE 0)
        + (IF finding1.severity = finding2.severity THEN 1 ELSE 0)

\* similarity_score as the exact fraction num/den: the tenths plus
\* 0.3 * |words1 & words2| / |words1 | words2|, capped at 1
similarity_score(finding1, finding2) ==
    LET words1 == finding1.tokens
        words2 == finding2.tokens
        u == IF words1 # {} /\ words2 # {} THEN Cardinality(words1 \cup words2) ELSE 1
        i == IF words1 # {} /\ words2 # {} THEN Cardinality(words1 \cap words2) ELSE 0
        n == Tenths(finding1, finding2) * u + 3 * i
    IN  [num |-> IF n > 10 * u THEN 10 * u ELSE n, den |-> 10 * u]

\* score >= threshold, for find_matches' default threshold 0.5
MeetsThreshold(score) == 2 * score.num >= score.den

\* the finding behind the cache key (cli position, index)
At(input, k) == input[k[1]].findings[k[2]]

\* a matcher that opens a new group for every pair that meets the threshold
AddMatchNewGroup(input, st, k1, k2) ==
    [matched |-> st.matched \cup {k1, k2},
     groups |-> Append(st.groups,
                       [findings |-> <<k1, k2>>,
                        sources |-> {At(input, k1).source, At(input, k2).source}])]

\* "Find or create a group", then f1["_matched"] = f2["_matched"] = True
AddMatch(input, st, k1, k2) ==
    LET hits == {g \in 1..Len(st.groups) :
                    k1 \in SeqToSet(st.groups[g].findings)
                    \/ k2 \in SeqToSet(st.groups[g].findings)}
        g == CHOOSE x \in hits : \A y \in hits : x <= y
        with1 == IF k1 \in SeqToSet(st.groups[g].findings)
                 THEN st.groups[g].findings
                 ELSE Append(st.groups[g].findings, k1)
        with2 == IF k2 \in SeqToSet(with1) THEN with1 ELSE Append(with1, k2)
        groups == IF hits = {}
                  THEN Append(st.groups,
                              [findings |-> <<k1, k2>>,
                               sources |-> {At(input, k1).source, At(input, k2).source}])
                  ELSE [st.groups EXCEPT ![g] =
                           [findings |-> with2,
                            sources |-> {At(input, with2[n]).source : n \in 1..Len(with2)}]]
    IN  [matched |-> st.matched \cup {k1, k2}, groups |-> groups]

RECURSIVE ForF2(_, _, _, _, _)
\* for f2 in findings[cli2], from index j on, with f1 fixed
ForF2(input, st, k1, c2, j) ==
    IF j > Len(input[c2].findings) THEN st
    ELSE LET k2 == <<c2, j>>
         IN  IF k2 \in st.matched THEN ForF2(input, st, k1, c2, j + 1)
             ELSE IF MeetsThreshold(similarity_score(At(input, k1), At(input, k2)))
                  THEN ForF2(input, AddMatch(input, st, k1, k2), k1, c2, j + 1)
                  ELSE ForF2(input, st, k1, c2, j + 1)

RECURSIVE ForF1(_, _, _, _, _)
\* for f1 in findings[cli1], from index i on: a matched f1 is skipped
ForF1(input, st, c1, c2, i) ==
    IF i > Len(input[c1].findings) THEN st
    ELSE IF <<c1, i>> \in st.matched THEN ForF1(input, st, c1, c2, i + 1)
         ELSE ForF1(input, ForF2(input, st, <<c1, i>>, c2, 1), c1, c2, i + 1)

RECURSIVE ForClis(_, _, _, _)
\* for i, cli1 in enumerate(clis): for cli2 in clis[i + 1:]
ForClis(input, st, c1, c2) ==
    IF c1 >= Len(input) THEN st
    ELSE IF c2 > Len(input) THEN ForClis(input, st, c1 + 1, c1 + 2)
         ELSE ForClis(input, ForF1(input, st, c1, c2, 1), c1, c2 + 1)

\* [matched, groups]: the groups and the copies' _matched flags
find_matches(input) ==
    ForClis(input, [matched |-> {}, groups |-> <<>>], 1, 2)

SeverityIndex(s) ==
    CASE s = "trivial" -> 0 [] s = "minor" -> 1 [] s = "major" -> 2 [] s = "critical" -> 3

\* the merged finding aggregate_findings builds for a group
Merged(input, group) ==
    LET first == At(input, group.findings[1])
        sevs == {At(input, group.findings[n]).severity : n \in 1..Len(group.findings)}
    IN  [id |-> group.findings[1],
         category |-> first.category,
         severity |-> CHOOSE s \in sevs :
                          \A t \in sevs : SeverityIndex(t) <= SeverityIndex(s),
         file |-> first.file,
         line |-> first.line,
         sources |-> group.sources]

RECURSIVE SortBySeverity(_, _)
\* list.sort(key=severity_order): stable, critical first; rank counts down from 3
SortBySeverity(ms, rank) ==
    IF rank < 0 THEN <<>>
    ELSE SelectSeq2(ms, {m \in SeqToSet(ms) : SeverityIndex(m.severity) = rank})
         \o SortBySeverity(ms, rank - 1)

\* a classification that asks only for all the run's agents as sources
ConsensusGroupsAnyCount(input, groups, cli_count) ==
    {g \in 1..Len(groups) : Cardinality(groups[g].sources) >= cli_count}

\* the groups that become consensus, given the sources a group needs for it
ConsensusGroups(input, groups, cli_count) ==
    {g \in 1..Len(groups) :
        Cardinality(groups[g].sources) >= cli_count /\ cli_count >= 3}

aggregate_findings(input) ==
    LET groups == find_matches(input).groups
        cli_count == Len(input)
        cons == ConsensusGroups(input, groups, cli_count)
        majo == {g \in 1..Len(groups) :
                    g \notin cons /\ Cardinality(groups[g].sources) >= 2}
        merged == [g \in 1..Len(groups) |-> Merged(input, groups[g])]
    IN  [done |-> TRUE,
         total_findings |->
             Cardinality({k \in (1..Len(input)) \X (1..MaxFindings) :
                               k[2] <= Len(input[k[1]].findings)}),
         consensus |-> SortBySeverity(
             SelectSeq2(merged, {merged[g] : g \in cons}), 3),
         majority |-> SortBySeverity(
             SelectSeq2(merged, {merged[g] : g \in majo}), 3),
         \* the loop reads the caller's dicts, which find_matches never marks:
         \* f.get("_matched") is None for every finding
         unique |-> [c \in 1..Len(input) |-> input[c].findings]]

NoOutput == [done |-> FALSE]

AggTotal == Cardinality({k \in (1..Len(agg.input)) \X (1..MaxFindings) :
                            k[2] <= Len(agg.input[k[1]].findings)})

\* the review ran one more CLI, whose output file holds no finding yet
AggAddCli ==
    \E cli \in Clis :
        /\ ~agg.output.done
        /\ \A c \in 1..Len(agg.input) : agg.input[c].cli # cli
        /\ agg' = [agg EXCEPT !.input = Append(@, [cli |-> cli, findings |-> <<>>])]
        /\ UNCHANGED <<storeVars, review, parse, sim>>

\* the parser of the last CLI returns one more finding
AggAddFinding ==
    /\ ~agg.output.done
    /\ Len(agg.input) >= 1
    /\ AggTotal < MaxFindings
    /\ \E f \in Findings(agg.input[Len(agg.input)].cli) :
          agg' = [agg EXCEPT !.input[Len(agg.input)].findings = Append(@, f)]
    /\ UNCHANGED <<storeVars, review, parse, sim>>

\* aggregate_findings(review_id); it raises when no CLI is in the metadata
Aggregate ==
    /\ ~agg.output.done
    /\ Len(agg.input) >= 1
    /\ agg' = [agg EXCEPT !.output = aggregate_findings(agg.input)]
    /\ UNCHANGED <<storeVars, review, parse, sim>>

AggInit ==
    /\ StoreInit
    /\ agg = [input |-> <<>>, output |-> NoOutput]
    /\ review = NoReview
    /\ parse = NoParse
    /\ sim = NoSim

AggNext == AggAddCli \/ AggAddFinding \/ Aggregate

AggSpec == AggInit /\ [][AggNext]_vars

(***************************************************************************)
(* The review runner (review_runner.py, cli_configs.py)                    *)
(***************************************************************************)
StderrLimit == 500    \* result["error"] = proc.stderr[:500]

\* the names a caller may request; "cursor" has no entry in CLI_CONFIGS
RunClis == Clis \cup {"cursor"}

\* prompts, as their text and len(prompt)
Prompts == {[text |-> "review src/auth.py", len |-> 18],
            [text |-> "find bugs", len |-> 9]}

\* hashlib.sha256(prompt.encode()).hexdigest()[:16]
prompt_hash(prompt) ==
    CASE prompt.text = "review src/auth.py" -> "5f2a9c01d4e7b836"
      [] prompt.text = "find bugs" -> "c81e728d9d4c2f63"

\* CLI_CONFIGS[cli]
CLI_CONFIGS(cli) ==
    CASE cli = "claude" -> [command |-> "claude", default_model |-> "opus",
                            prompt_flag |-> "-p",
                            auto_flags |-> <<"--dangerously-skip-permissions">>]
      [] cli = "gemini" -> [command |-> "gemini", default_model |-> "gemini-3-pro-preview",
                            prompt_flag |-> "", auto_flags |-> <<"-y">>]
      [] cli = "codex" -> [command |-> "codex", default_model |-> "gpt-5.2-codex",
                           prompt_flag |-> "", auto_flags |-> <<"--full-auto">>]

\* build_command_list(cli, prompt): the argv of the review
build_review_command(cli, prompt) ==
    LET config == CLI_CONFIGS(cli)
    IN  <<config.command, "--model", config.default_model>>
        \o config.auto_flags
        \o (IF config.prompt_flag # "" THEN <<config.prompt_flag, prompt.text>>
            ELSE <<prompt.text>>)

\* check_cli_installed(cli): a configured CLI whose check command exits 0
check_cli_installed(cli, installed) == cli \in Clis /\ cli \in installed

\* the requested lists: one or more names, none twice
Requested ==
    {q \in UNION {[1..n -> RunClis] : n \in 1..Cardinality(RunClis)} :
        \A i, j \in 1..Len(q) : i # j => q[i] # q[j]}

\* lines 136-142: the requested names that pass the probe, in order
available_of(clis, installed) ==
    SelectSeq2(clis, {c \in SeqToSet(clis) : check_cli_installed(c, installed)})

\* a split that reports every requested name as missing
missing_all(clis, installed) == clis

\* lines 136-142: the requested names that fail the probe, in order
missing_of(clis, installed) ==
    SelectSeq2(clis, {c \in SeqToSet(clis) : ~check_cli_installed(c, installed)})

\* text captured from a process, as its content and its length
NoText == [text |-> "", len |-> 0]
Stderrs == {NoText, [text |-> "Traceback", len |-> 9],
            [text |-> "Traceback", len |-> StderrLimit + 1]}

\* s[:n]
Prefix(s, n) == [text |-> s.text, len |-> IF s.len <= n THEN s.len ELSE n]

\* what subprocess.run does: the process exits, runs out of time, or the
\* launch raises
Outcomes ==
    {[kind |-> "exit", return_code |-> 0, stderr |-> e] :
        e \in {NoText, [text |-> "Traceback", len |-> 9]}}
    \cup {[kind |-> "exit", return_code |-> 1, stderr |-> e] : e \in Stderrs}
    \cup {[kind |-> "timeout", return_code |-> 0, stderr |-> NoText],
          [kind |-> "exception", return_code |-> 0, stderr |-> NoText]}

NonZeroExit == [text |-> "Non-zero exit code", len |-> 18]
TimeoutError == [text |-> "Review exceeded timeout", len |-> 23]
LaunchError == [text |-> "[Errno 2] No such file or directory", len |-> 35]

\* a status mapping that takes every exit for a success
status_of_wrong(outcome) ==
    CASE outcome.kind = "exit" -> "complete"
      [] outcome.kind = "timeout" -> "timeout"
      [] outcome.kind = "exception" -> "error"

\* lines 106, 113, 117: the status of the result
status_of(outcome) ==
    CASE outcome.kind = "exit" ->
            IF outcome.return_code = 0 THEN "complete" ELSE "failed"
      [] outcome.kind = "timeout" -> "timeout"
      [] outcome.kind = "exception" -> "error"

\* a runner whose result keeps the status "running" when the launch raises
run_single_review_uncaught(cli, prompt, outcome) ==
    [cli |-> cli,
     status |-> IF outcome.kind = "exception" THEN "running" ELSE status_of(outcome),
     command |-> build_review_command(cli, prompt),
     error |-> NoText,
     outcome |-> outcome]

\* run_single_review(cli, prompt, ...): the result dict it returns
run_single_review(cli, prompt, outcome) ==
    [cli |-> cli,
     status |-> status_of(outcome),
     command |-> build_review_command(cli, prompt),
     error |->
        CASE outcome.kind = "exit" ->
                IF outcome.return_code # 0
                THEN IF outcome.stderr.len > 0
                     THEN Prefix(outcome.stderr, StderrLimit) ELSE NonZeroExit
                ELSE NoText
          [] outcome.kind = "timeout" -> TimeoutError
          [] outcome.kind = "exception" -> LaunchError,
     outcome |-> outcome]

\* lines 94-104: the output file <cli>.json, written when the process exited
output_data(cli, outcome) ==
    [cli |-> cli, model |-> CLI_CONFIGS(cli).default_model,
     stdout |-> "1. src/auth.py:10 injection", stderr |-> outcome.stderr,
     return_code |-> outcome.return_code]

\* lines 157-167 and 201-202: metadata.json
metadata_of(clis, prompt, available, missing, results) ==
    [written |-> TRUE,
     prompt_hash |-> prompt_hash(prompt), prompt_length |-> prompt.len,
     requested_clis |-> clis, available_clis |-> available,
     missing_clis |-> missing, results |-> results]

\* a return value that asks every launched agent to complete
run_result_all(results, missing) ==
    LET successful == {i \in 1..Len(results) : results[i].status = "complete"}
    IN  [returned |-> TRUE,
         success |-> Cardinality(successful) = Len(results),
         error |-> IF Cardinality(successful) = Len(results) THEN "" ELSE "All CLIs failed",
         named |-> IF Cardinality(successful) = Len(results) THEN <<>>
                   ELSE [i \in 1..Len(results) |-> results[i].cli],
         results |-> results, has_missing |-> TRUE, missing_clis |-> missing]

\* lines 207-226: the value run_parallel_reviews returns after the agents ran
run_result(results, missing) ==
    LET successful == {i \in 1..Len(results) : results[i].status = "complete"}
    IN  [returned |-> TRUE,
         success |-> successful # {},
         error |-> IF successful = {} THEN "All CLIs failed" ELSE "",
         named |-> IF successful = {} THEN [i \in 1..Len(results) |-> results[i].cli]
                   ELSE <<>>,
         results |-> results, has_missing |-> TRUE, missing_clis |-> missing]

\* lines 131-170: the probe of the requested agents; with none available the
\* run returns at once, else metadata.json is written and the agents start
RunStart ==
    \E clis \in Requested, prompt \in Prompts, installed \in SUBSET Clis :
        /\ review.pc = "idle"
        /\ LET available == available_of(clis, installed)
               missing == missing_of(clis, installed)
           IN  IF available = <<>>
               THEN review' = [review EXCEPT
                       !.pc = "done", !.clis = clis, !.prompt = prompt,
                       !.installed = installed,
                       !.missing_clis = missing,
                       !.ret = [returned |-> TRUE, success |-> FALSE,
                                error |-> "No CLIs available", named |-> missing,
                                results |-> <<>>, has_missing |-> FALSE,
                                missing_clis |-> <<>>]]
               ELSE review' = [review EXCEPT
                       !.pc = "running", !.clis = clis, !.prompt = prompt,
                       !.installed = installed,
                       !.available_clis = available, !.missing_clis = missing,
                       !.launched = SeqToSet(available),
                       !.pending = SeqToSet(available),
                       !.metadata = metadata_of(clis, prompt, available, missing, <<>>)]
        /\ UNCHANGED <<storeVars, agg, parse, sim>>

\* lines 62-121 and 187-192: one agent's run_single_review ends and its
\* result joins the results, in order of completion
AgentEnds ==
    \E cli \in review.pending, outcome \in Outcomes :
        /\ review.pc = "running"
        /\ review' = [review EXCEPT
              !.pending = @ \ {cli},
              !.results = Append(@, run_single_review(cli, review.prompt, outcome)),
              !.outputs = IF outcome.kind = "exit"
                          THEN Append(@, output_data(cli, outcome)) ELSE @]
        /\ UNCHANGED <<storeVars, agg, parse, sim>>

\* lines 200-226: metadata.json is rewritten with the results and the run returns
RunFinish ==
    /\ review.pc = "running"
    /\ review.pending = {}
    /\ review' = [review EXCEPT
          !.pc = "done",
          !.metadata = metadata_of(review.clis, review.prompt, review.available_clis,
                                   review.missing_clis, review.results),
          !.ret = run_result(review.results, review.missing_clis)]
    /\ UNCHANGED <<storeVars, agg, parse, sim>>

\* what the agent's parser makes of the stdout "1. src/auth.py:10 injection"
\* of its output file: one finding; Gemini's parser drops the list number
ParsedStdout(cli) ==
    <<[source |-> cli, category |-> "security", severity |-> "trivial",
       file |-> "src/auth.py", line |-> 10,
       tokens |-> IF cli = "gemini" THEN {"src/auth.py:10", "injection"}
                  ELSE {"1", "src/auth.py:10", "injection"}]>>

\* an input of the aggregator that takes the agents in the order their
\* output files were written
ReviewAggInputByPosition(rv) ==
    [i \in 1..Len(rv.outputs) |->
        [cli |-> rv.outputs[i].cli, findings |-> ParsedStdout(rv.outputs[i].cli)]]

\* aggregator.py lines 176-182: the findings aggregate_findings reads for a
\* finished review: for cli in metadata["available_clis"], the parse of
\* <cli>.json, which is empty when the agent wrote no output file
ReviewAggInput(rv) ==
    [i \in 1..Len(rv.available_clis) |->
        [cli |-> rv.available_clis[i],
         findings |-> IF \E o \in 1..Len(rv.outputs) :
                            rv.outputs[o].cli = rv.available_clis[i]
                      THEN ParsedStdout(rv.available_clis[i])
                      ELSE <<>>]]

ReviewInit ==
    /\ StoreInit
    /\ agg = NoAgg
    /\ review = NoReview
    /\ parse = NoParse
    /\ sim = NoSim

ReviewNext == RunStart \/ AgentEnds \/ RunFinish

ReviewSpec == ReviewInit /\ [][ReviewNext]_vars

(***************************************************************************)
(* The normalizer (result_parser.py)                                       *)
(*                                                                         *)
(* A text is the set of lower-cased words it holds, which is all that the  *)
(* \b(...)\b searches of parse_severity and parse_category look at.  An    *)
(* agent's stdout is a JSON list, a JSON dict with the agent's list under  *)
(* its key (findings, issues), or text cut into sections; any other JSON   *)
(* value is parsed as text.                                                *)
(***************************************************************************)
MaxItems == 2         \* items of one JSON document, sections of one text

parse_severity(text) ==
    IF text \cap {"critical", "high", "severe", "urgent"} # {} THEN "critical"
    ELSE IF text \cap {"major", "important", "significant"} # {} THEN "major"
    ELSE IF text \cap {"minor", "low", "small"} # {} THEN "minor"
    ELSE "trivial"

parse_category(text) ==
    IF text \cap {"security", "vulnerability", "injection", "xss", "auth", "csrf",
                  "owasp"} # {}
    THEN "security"
    ELSE IF text \cap {"performance", "slow", "optimize", "memory", "cpu", "n+1",
                       "cache"} # {}
    THEN "performance"
    ELSE IF text \cap {"architecture", "design", "pattern", "structure", "coupling",
                       "cohesion"} # {}
    THEN "architecture"
    ELSE IF text \cap {"quality", "readable", "maintainable", "clean", "dry",
                       "duplicate"} # {}
    THEN "quality"
    ELSE "best-practices"

\* the texts of the agents here, made of three words
Texts == SUBSET {"high", "low", "cache"}

\* item["severity"], item["category"] and item["type"] as the agent wrote
\* them; "" stands for a missing key or an empty value
JsonSeverities == {"", "critical", "high", "info"}
JsonCategories == {"", "security", "bug"}
JsonTypes == {"", "style"}

\* the elements of a JSON document: dicts, and one element that is not a dict;
\* text: the words of its description (message
\* in Gemini's dict form); desc_ok: that value is a string, not null or a number
JsonItems ==
    {[isdict |-> TRUE, severity |-> sv, category |-> c, type |-> ty,
      text |-> t, desc_ok |-> TRUE, long |-> TRUE] :
        sv \in JsonSeverities, c \in JsonCategories, ty \in JsonTypes, t \in Texts}
    \cup {[isdict |-> TRUE, severity |-> sv, category |-> c, type |-> ty,
           text |-> {}, desc_ok |-> FALSE, long |-> TRUE] :
             sv \in JsonSeverities, c \in JsonCategories, ty \in JsonTypes}
    \cup {[isdict |-> FALSE, severity |-> "", category |-> "", type |-> "",
            text |-> {}, desc_ok |-> TRUE, long |-> TRUE]}

\* a section of text output; long: it passes the parser's length test
TextSections ==
    {[isdict |-> TRUE, severity |-> "", category |-> "", type |-> "",
      text |-> t, desc_ok |-> TRUE, long |-> l] :
        t \in Texts, l \in BOOLEAN}

SeqsUpTo(S, n) == UNION {[1..k -> S] : k \in 0..n}

\* the stdout field of an output file
Stdouts ==
    {[format |-> f, items |-> i] : f \in {"list", "dict"}, i \in SeqsUpTo(JsonItems, MaxItems)}
    \cup {[format |-> "text", items |-> i] : i \in SeqsUpTo(TextSections, MaxItems)}

\* the output file of one CLI: missing, not JSON, or holding a stdout
OutputFiles ==
    {[state |-> "absent"], [state |-> "corrupt"]}
    \cup {[state |-> "ok", stdout |-> o] : o \in Stdouts}

\* _safe_get(item, key) or fallback: the item's own value unless it is falsy
safe_get_or(value, fallback) == IF value # "" THEN value ELSE fallback

\* str(item): the words of the whole dict, its values included
item_str(item) == item.text \cup ({item.severity, item.category, item.type} \ {""})

\* the parsers whose fallback text is the description itself (Claude) or the
\* message (Gemini's dict form); the others use str(item)
UsesDescription(cli, format) == cli = "claude" \/ (cli = "gemini" /\ format = "dict")

\* the text handed to parse_category and parse_severity for a JSON item
FallbackText(cli, format, item) ==
    IF UsesDescription(cli, format) THEN item.text ELSE item_str(item)

\* the key the category is read from: "type" in Gemini's dict form
CategoryValue(cli, format, item) ==
    IF cli = "gemini" /\ format = "dict" THEN item.type ELSE item.category

\* a finding with a severity and a category taken from the text alone
TextFinding(cli, section) ==
    [source |-> cli,
     category |-> parse_category(section.text),
     severity |-> parse_severity(section.text)]

JsonFinding(cli, format, item) ==
    [source |-> cli,
     category |-> safe_get_or(CategoryValue(cli, format, item),
                              parse_category(FallbackText(cli, format, item))),
     severity |-> safe_get_or(item.severity,
                              parse_severity(FallbackText(cli, format, item)))]

\* parse_claude_output, parse_gemini_output, parse_codex_output
parse_output(cli, stdout) ==
    IF stdout.format = "text"
    THEN LET kept == SelectSeq(stdout.items, LAMBDA x : x.long)
         IN  [k \in 1..Len(kept) |-> TextFinding(cli, kept[k])]
    ELSE LET kept == SelectSeq(stdout.items, LAMBDA x : x.isdict)
         IN  [k \in 1..Len(kept) |-> JsonFinding(cli, stdout.format, kept[k])]

\* the parser raises on this stdout: parse_category(desc) or
\* parse_severity(desc) calls desc.lower() on a description that is not a
\* string (AttributeError, caught nowhere)
OutputRaises(cli, stdout) ==
    /\ stdout.format # "text"
    /\ UsesDescription(cli, stdout.format)
    /\ \E k \in 1..Len(stdout.items) :
          LET item == stdout.items[k]
          IN  /\ item.isdict
              /\ ~item.desc_ok
              /\ (CategoryValue(cli, stdout.format, item) = "" \/ item.severity = "")

\* parse_cli_output(cli, output_file)
parse_cli_output ==
    /\ parse.pc = "idle"
    /\ \E cli \in RunClis, f \in OutputFiles :
          parse' = IF f.state # "ok" \/ cli \notin Clis
                   THEN [pc |-> "done", cli |-> cli, output_file |-> f,
                         findings |-> <<>>]
                   ELSE IF OutputRaises(cli, f.stdout)
                   THEN [pc |-> "raised", cli |-> cli, output_file |-> f,
                         findings |-> <<>>]
                   ELSE [pc |-> "done", cli |-> cli, output_file |-> f,
                         findings |-> parse_output(cli, f.stdout)]
    /\ UNCHANGED <<storeVars, agg, review, sim>>

ParseInit ==
    /\ StoreInit
    /\ agg = NoAgg
    /\ review = NoReview
    /\ parse = NoParse
    /\ sim = NoSim

ParseSpec == ParseInit /\ [][parse_cli_output]_vars

(***************************************************************************)
(* similarity_score on its own (aggregator.py)                             *)
(***************************************************************************)
\* the findings similarity_score is given: with or without a file and a line
\* ("" and 0 stand for a missing or falsy value), lines 0, 2, 8 and 20 apart,
\* and descriptions sharing none, some or all of their tokens
ScoredFindings ==
    {[source |-> "claude", category |-> c, severity |-> v, file |-> f, line |-> l,
      tokens |-> t] :
        c \in {"security", "quality"}, v \in {"critical", "minor"},
        f \in {"", "src/x.ts", "src/y.ts"}, l \in {0, 10, 12, 18, 30},
        t \in {{}, {"sql"}, {"sql", "injection"}, {"duplicate"}}}

\* score = similarity_score(finding1, finding2, tokens1, tokens2)
Score ==
    /\ sim.pc = "idle"
    /\ \E finding1, finding2 \in ScoredFindings :
          sim' = [pc |-> "done", finding1 |-> finding1, finding2 |-> finding2,
                  score |-> similarity_score(finding1, finding2)]
    /\ UNCHANGED <<storeVars, agg, review, parse>>

SimInit ==
    /\ StoreInit
    /\ agg = NoAgg
    /\ review = NoReview
    /\ parse = NoParse
    /\ sim = NoSim

SimSpec == SimInit /\ [][Score]_vars

\* tournament operations, one call at a time
TournSeqNext ==
    \/ \E p \in Procs : (\A q \in Procs \ {p} : Idle(q)) /\ TournStep(p)
    \/ CreateMarker
    \/ Tick

TournSeqSpec == TournInit /\ [][TournSeqNext]_vars

\* the callers go on calling: the count of calls made starts again
MoreCalls ==
    /\ AllIdle
    /\ nops = MaxOps
    /\ nops' = 0
    /\ UNCHANGED <<file, lock, pc, call, data, tmp, cont, ret, tourn, completion,
                   now, markers, alive, hist, agg, review, parse, sim>>

\* process p alone is in a call, or about to start one
Alone(p) == \A q \in Procs \ {p} : Idle(q)

TournLiveNext ==
    \/ \E p \in Procs : Alone(p) /\ TournStep(p)
    \/ CreateMarker
    \/ Tick
    \/ MoreCalls

\* tournament operations, one call at a time, made without end: every call
\* under way runs to its end, and polls and reports are made again and again
TournLiveSpec ==
    /\ TournInit
    /\ [][TournLiveNext]_vars
    /\ WF_vars(MoreCalls)
    /\ \A p \in Procs : /\ WF_vars(Alone(p) /\ ~Idle(p) /\ TournStep(p))
                        /\ SF_vars(Alone(p) /\ GtsStart(p))
                        /\ SF_vars(Alone(p) /\ GrrStart(p))

(***************************************************************************)
(* Properties                                                              *)
(***************************************************************************)
StoreWorkers == load_coordination(file).workers
StoreTournaments == load_coordination(file).tournaments

\* C1 (AggSpec): three agents that each report one finding on src/x.ts:10 with
\* category security yield exactly one consensus group, whose sources are the
\* three agents, and no other group.
C1_OneConsensusGroup ==
    (/\ agg.output.done
     /\ Len(agg.input) = 3
     /\ \A c \in 1..3 :
           /\ Len(agg.input[c].findings) = 1
           /\ agg.input[c].findings[1].file = "src/x.ts"
           /\ agg.input[c].findings[1].line = 10
           /\ agg.input[c].findings[1].category = "security")
    => /\ Len(agg.output.consensus) = 1
       /\ agg.output.consensus[1].sources = {agg.input[c].cli : c \in 1..3}
       /\ Len(agg.output.majority) = 0

\* C2 (Spec): no lost update: once every call has returned, the store holds
\* one worker for every register_worker call that returned, less the workers
\* the remove_worker calls that returned took out.
C2_NoLostUpdate ==
    (AllIdle /\ Readable(file))
    => Len(StoreWorkers) = Len(hist.regLog) - hist.removed

\* C3 (Spec): in every state of the store file, under every interleaving of the
\* processes' calls, no two worker records share an id.
C3_UniqueWorkerIds ==
    Readable(file)
    => \A i, j \in 1..Len(StoreWorkers) :
          i # j => StoreWorkers[i].id # StoreWorkers[j].id

\* two concurrent register_worker calls have computed the same id, one has
\* written its worker and the other is about to
C3_Witness ==
    \E p, q \in Procs :
        /\ p # q
        /\ call[p].op = "register_worker" /\ call[q].op = "register_worker"
        /\ pc[p] = "return" /\ pc[q] = "rename"
        /\ ret[p].val = ret[q].val
        /\ Len(StoreWorkers) >= 1

\* C4 (SeqSpec): register_worker calls applied one after another to an empty
\* store return 1, 2, ..., N in this order, whatever workers are registered, each
\* the maximum of the ids in the store before the call plus one (1 when empty).
C4_SequentialIds ==
    hist.onlyRegs
    => /\ \A i \in 1..Len(hist.regLog) : hist.regLog[i] = i
       /\ \A p \in Procs :
             (pc[p] = "return" /\ call[p].op = "register_worker")
             => LET n == Len(StoreWorkers)
                    before == {StoreWorkers[i].id : i \in 1..(n - 1)}
                IN  /\ n >= 1
                    /\ StoreWorkers[n].id = ret[p].val
                    /\ ret[p].val = IF before = {} THEN 1 ELSE Max(before) + 1

\* MaxWorkers register_worker calls and no other have returned, the workers
\* registered in either order of their paths
C4_Witness ==
    /\ hist.onlyRegs
    /\ Len(hist.regLog) = MaxWorkers
    /\ Len(StoreWorkers) = MaxWorkers
    /\ StoreWorkers[1].path = "wt-b"
    /\ StoreWorkers[MaxWorkers].path = "wt-a"

StatusRank(s) ==
    CASE s = "running" -> 0 [] s = "reviewing" -> 1 [] s = "complete" -> 2

\* C5 (TournSeqSpec): a tournament's status never regresses: every change of
\* the store leaves each tournament's status where it was or further along
\* running -> reviewing -> complete.
C5_StatusNeverRegresses ==
    [][\A i \in 1..Len(StoreTournaments) :
          i <= Len(StoreTournaments')
          /\ StatusRank(StoreTournaments'[i].status)
                >= StatusRank(StoreTournaments[i].status)]_vars

AllDone(t) == \A j \in 1..Len(t.workers) : t.workers[j].done

\* C6 (TournSpec): whenever a tournament's status changes to reviewing, every
\* worker of it is done in the store at that moment.
C6_ReviewingOnlyWhenAllDone ==
    [][\A i \in 1..Len(StoreTournaments) :
          (/\ i <= Len(StoreTournaments')
           /\ StoreTournaments[i].status # "reviewing"
           /\ StoreTournaments'[i].status = "reviewing")
          => AllDone(StoreTournaments'[i])]_vars

\* C7 (TournSpec): once the store shows a tournament worker done, every later
\* state of the store shows it done.
C7_DoneStaysDone ==
    [][\A i \in 1..Len(StoreTournaments) :
          \A j \in 1..Len(StoreTournaments[i].workers) :
              StoreTournaments[i].workers[j].done
              => /\ i <= Len(StoreTournaments')
                 /\ StoreTournaments'[i].workers[j].done]_vars

\* C8 (TournSeqSpec): mark_tournament_worker_done called for a worker that is
\* already done leaves the store as it was: the write of such a call does not
\* change the file.
C8_MarkDoneIdempotent ==
    [][\A p \in Procs :
          (/\ pc[p] = "rename" /\ pc'[p] = "unlock"
           /\ call[p].op = "mark_tournament_worker_done"
           /\ \E i \in 1..Len(StoreTournaments) :
                 /\ StoreTournaments[i].id = call[p].tid
                 /\ \E j \in 1..Len(StoreTournaments[i].workers) :
                       /\ StoreTournaments[i].workers[j].worker_id = call[p].wid
                       /\ StoreTournaments[i].workers[j].done)
          => file' = file]_vars

\* C9 (RegSpec): no two tournaments in the store share an id.
C9_UniqueTournamentIds ==
    \A i, j \in 1..Len(StoreTournaments) :
        i # j => StoreTournaments[i].id # StoreTournaments[j].id

\* C10 (Spec): at every instant the store file is absent or one complete
\* document, no reader has met a partial one, and the file changes only by
\* becoming, whole, the snapshot a save_coordination call in progress was given.
C10_AtomicStoreFile ==
    /\ [](Readable(file) /\ ~hist.sawPartial)
    /\ [][file' # file
          => \E p \in Procs :
                /\ pc[p] = "rename"
                /\ file' = [state |-> "full", snap |-> data[p]]]_vars

\* two save_coordination calls run at once with different snapshots: one has
\* renamed its temp file over the store and the other waits for the lock
C10_Witness ==
    \E p, q \in Procs :
        /\ p # q
        /\ pc[p] = "unlock" /\ pc[q] = "lock"
        /\ data[p] # data[q]
        /\ file = [state |-> "full", snap |-> data[p]]

InSave(p) == pc[p] \in {"mkstemp", "dump", "rename", "unlock", "unlock_raise"}

\* C11 (Spec): save_coordination releases the lock on every exit path: a
\* process holds the lock only inside save_coordination, and no temp file of
\* it is left outside; when mkstemp, the write or the rename fails the temp
\* file is gone before the lock is released, and the store file keeps the
\* content it had: while a process holds the lock the file changes only by
\* that process's successful rename.
C11_SaveReleasesLock ==
    /\ [](\A p \in Procs :
            /\ (lock = p => InSave(p))
            /\ (~InSave(p) => tmp[p] = "none")
            /\ (pc[p] = "unlock_raise" => tmp[p] = "none" /\ lock = p))
    /\ [][\A p \in Procs :
            /\ (InSave(p) /\ ~InSave(p)') => lock' = NoProc
            /\ (lock = p /\ file' # file) => (pc[p] = "rename" /\ pc'[p] = "unlock")
            /\ (pc'[p] = "unlock_raise" /\ pc[p] # "unlock_raise") => file' = file]_vars

\* a save_coordination call that would have changed a store written earlier
\* has failed: its temp file is deleted and it is about to release the lock
C11_Witness ==
    \E p \in Procs :
        /\ pc[p] = "unlock_raise"
        /\ file.state = "full"
        /\ data[p] # file.snap

\* the strings json.dump writes for one result dict of metadata["results"]
ResultTexts(r) == {r.cli, r.status, r.error.text} \cup SeqToSet(r.command)

\* the strings in metadata.json
MetadataTexts(m) ==
    IF ~m.written THEN {}
    ELSE {m.prompt_hash}
         \cup SeqToSet(m.requested_clis) \cup SeqToSet(m.available_clis)
         \cup SeqToSet(m.missing_clis)
         \cup UNION {ResultTexts(m.results[i]) : i \in 1..Len(m.results)}

\* the strings in one agent's output file
OutputTexts(o) == {o.cli, o.model, o.stdout, o.stderr.text}

\* C12 (ReviewSpec): no file the run writes (metadata.json with the results in
\* it, the agents' output files) holds the prompt text; the metadata holds the
\* prompt's fingerprint and length.
C12_PromptNeverPersisted ==
    review.pc # "idle"
    => /\ review.prompt.text \notin MetadataTexts(review.metadata)
       /\ \A i \in 1..Len(review.outputs) :
             review.prompt.text \notin OutputTexts(review.outputs[i])
       /\ review.metadata.written
          => /\ review.metadata.prompt_hash = prompt_hash(review.prompt)
             /\ review.metadata.prompt_length = review.prompt.len

\* C15 (ReviewSpec): the requested agents are split into available (those
\* that pass the probe) and missing (those that fail it), disjoint and together
\* the requested list; exactly the available ones are launched; the run fails
\* for lack of agents only when none is available, and otherwise returns the
\* missing ones and succeeds when at least one launched agent completes.
C15_AvailableMissingSplit ==
    review.pc # "idle"
    => LET a == review.available_clis
           m == review.missing_clis
       IN  /\ SeqToSet(a) \cap SeqToSet(m) = {}
           /\ SeqToSet(a) \cup SeqToSet(m) = SeqToSet(review.clis)
           /\ Len(a) + Len(m) = Len(review.clis)
           /\ \A c \in SeqToSet(a) : check_cli_installed(c, review.installed)
           /\ \A c \in SeqToSet(m) : ~check_cli_installed(c, review.installed)
           /\ review.launched = SeqToSet(a)
           /\ \A i \in 1..Len(review.results) : review.results[i].cli \in SeqToSet(a)
           /\ review.pc = "done"
              => /\ (review.ret.error = "No CLIs available") <=> (a = <<>>)
                 /\ a # <<>>
                    => /\ review.ret.has_missing /\ review.ret.missing_clis = m
                       /\ (\E i \in 1..Len(review.results) :
                              review.results[i].status = "complete")
                          => review.ret.success

\* four agents were requested, one failed the probe, three were launched and
\* exactly one of them completed: the run has returned success
C15_Witness ==
    /\ review.pc = "done"
    /\ Len(review.clis) = 4
    /\ Len(review.missing_clis) = 1
    /\ Len(review.results) = 3
    /\ Cardinality({i \in 1..3 : review.results[i].status = "complete"}) = 1
    /\ review.ret.success
    /\ review.ret.missing_clis = review.missing_clis

\* a is s[:n] for some n
IsPrefixOf(a, s) == a.text = s.text /\ a.len <= s.len

C17_SuccessIffOneComplete ==
    (review.pc = "done" /\ review.launched # {})
    => /\ Len(review.ret.results) = Cardinality(review.launched)
       /\ review.ret.success
          <=> \E i \in 1..Len(review.ret.results) :
                 review.ret.results[i].status = "complete"
       /\ ~review.ret.success
          => /\ review.ret.error = "All CLIs failed"
             /\ SeqToSet(review.ret.named) = review.launched

\* three agents were launched and none completed: the run has returned a
\* failure
C17_Witness ==
    /\ review.pc = "done"
    /\ Cardinality(review.launched) = 3
    /\ ~review.ret.success
    /\ Len(review.ret.named) = 3
    /\ \E i \in 1..3 : review.ret.results[i].status = "failed"
    /\ \E i \in 1..3 : review.ret.results[i].status = "timeout"

\* the cache keys of a CLI's findings that find_matches left unmatched
Unmatched(input, c) ==
    {i \in 1..Len(input[c].findings) : <<c, i>> \notin find_matches(input).matched}

\* C13 (AggSpec): unique[agent] holds exactly the agent's findings that belong
\* to no match group: each unmatched finding once, and no finding that was
\* merged into a consensus or majority group.
C13_UniqueIsUnmatched ==
    agg.output.done
    => \A c \in 1..Len(agg.input) :
          /\ Len(agg.output.unique[c]) = Cardinality(Unmatched(agg.input, c))
          /\ \A i \in Unmatched(agg.input, c) :
                agg.input[c].findings[i] \in SeqToSet(agg.output.unique[c])

\* C14 (AggSpec): a match group is consensus exactly when its sources are as
\* many as the agents of the run and these are at least 3; every other group
\* (two or more sources) is majority; a run of two agents has no consensus
\* group, even when both agree.
C14_ConsensusIffAllOfThree ==
    agg.output.done
    => LET groups == find_matches(agg.input).groups
           n == Len(agg.input)
       IN  /\ \A g \in 1..Len(groups) :
                 LET m == Merged(agg.input, groups[g])
                     all == Cardinality(groups[g].sources) = n /\ n >= 3
                 IN  /\ m \in SeqToSet(agg.output.consensus) <=> all
                     /\ (~all /\ Cardinality(groups[g].sources) >= 2)
                        => m \in SeqToSet(agg.output.majority)
                     /\ ~(/\ m \in SeqToSet(agg.output.consensus)
                          /\ m \in SeqToSet(agg.output.majority))
           /\ Len(agg.output.consensus) + Len(agg.output.majority) <= Len(groups)
           /\ n = 2 => agg.output.consensus = <<>>

\* a run of two agents that agree on a finding: their group is majority
C14_Witness ==
    /\ agg.output.done
    /\ Len(agg.input) = 2
    /\ Len(find_matches(agg.input).groups) = 1
    /\ Cardinality(find_matches(agg.input).groups[1].sources) = 2
    /\ Len(agg.output.majority) = 1
    /\ agg.output.consensus = <<>>

Hits(ws, c) ==
    {i \in 1..Len(ws) : \/ c.path # "" /\ ws[i].path = c.path
                        \/ c.id # 0 /\ ws[i].id = c.id}

\* C19 (SeqSpec): unregister_worker marks the first worker its selector
\* matches stopped and remove_worker deletes the matching workers; with a
\* selector that matches nothing both return false without saving; the dict a
\* call leaves is one on which the same call changes nothing (a second call
\* with the same selector leaves the store as the first one did); and the
\* dict is what save_coordination puts in the store.
C19_UnregisterRemoveIdempotent ==
    /\ [][\A p \in Procs :
            (Idle(p) /\ call'[p].op \in {"unregister_worker", "remove_worker"})
            => LET c == call'[p]
                   d == load_coordination(file)
                   hits == Hits(d.workers, c)
                   after == IF pc'[p] = "lock" THEN data'[p] ELSE d
                   again == Hits(after.workers, c)
                   first == CHOOSE i \in hits : \A j \in hits : i <= j
               IN  /\ after.tournaments = d.tournaments
                   /\ pc'[p] = "lock" <=> hits # {}
                   /\ ret'[p].val = 0 <=> hits = {}
                   /\ hits = {} => after = d
                   /\ (c.op = "unregister_worker" /\ hits # {})
                      => /\ after.workers =
                               [d.workers EXCEPT ![first].status = "stopped"]
                         /\ again = hits
                         /\ after.workers[first].status = "stopped"
                   /\ c.op = "remove_worker"
                      => /\ after.workers =
                               SelectSeq(d.workers,
                                         LAMBDA w : /\ ~(c.path # "" /\ w.path = c.path)
                                                    /\ ~(c.id # 0 /\ w.id = c.id))
                         /\ Len(after.workers) = Len(d.workers) - Cardinality(hits)
                         /\ again = {}]_vars
    /\ [][\A p \in Procs :
            (/\ call[p].op \in {"unregister_worker", "remove_worker"}
             /\ pc[p] = "rename" /\ pc'[p] = "unlock")
            => load_coordination(file') = data[p]]_vars

\* a second unregister_worker call is under way on a worker without a pid that
\* an earlier unregister_worker stopped, and the dict it is about to save is
\* the store as that earlier call left it
C19_Witness ==
    \E p \in Procs :
        /\ pc[p] = "lock"
        /\ call[p].op = "unregister_worker"
        /\ ret[p].val = 1
        /\ data[p] = load_coordination(file)
        /\ \E i \in Hits(StoreWorkers, call[p]) :
              /\ StoreWorkers[i].status = "stopped"
              /\ StoreWorkers[i].pid = 0

\* C20 (ParseSpec): every finding the normalizer produces, from structured or
\* free-text output of any agent, has its severity among critical, major,
\* minor, trivial and its category among security, performance,
\* architecture, quality, best-practices.
C20_FindingEnumsClosed ==
    \A k \in 1..Len(parse.findings) :
        /\ parse.findings[k].severity \in {"critical", "major", "minor", "trivial"}
        /\ parse.findings[k].category \in
              {"security", "performance", "architecture", "quality", "best-practices"}

\* the parser was given a readable output file of a known agent whose stdout
\* is structured
ParsedStructured ==
    /\ parse.pc # "idle"
    /\ parse.cli \in {"claude", "gemini", "codex"}
    /\ parse.output_file.state = "ok"
    /\ parse.output_file.stdout.format \in {"list", "dict"}

\* C21 (ParseSpec): for every agent parser, the finding made from a structured
\* record that carries explicit severity and category fields has exactly
\* those two values.
C21_ExplicitFieldsPreserved ==
    (ParsedStructured /\ parse.pc = "done")
    => LET kept == SelectSeq(parse.output_file.stdout.items, LAMBDA x : x.isdict)
       IN  \A k \in 1..Len(kept) :
              (kept[k].severity # "" /\ kept[k].category # "")
              => /\ k <= Len(parse.findings)
                 /\ parse.findings[k].severity = kept[k].severity
                 /\ parse.findings[k].category = kept[k].category

\* C22 (ParseSpec): when the structured output is a list, parsing does not
\* raise, the entries that are not mappings are skipped, and every mapping
\* yields one finding, in input order.
C22_NonMappingSkipped ==
    (ParsedStructured /\ parse.output_file.stdout.format = "list")
    => LET kept == SelectSeq(parse.output_file.stdout.items, LAMBDA x : x.isdict)
       IN  /\ parse.pc = "done"
           /\ Len(parse.findings) = Len(kept)
           /\ \A k \in 1..Len(kept) :
                 /\ parse.findings[k].source = parse.cli
                 /\ kept[k].severity # ""
                    => parse.findings[k].severity = kept[k].severity

\* the groups find_matches builds from the parsed findings
MatchGroups == find_matches(agg.input).groups

\* C23 (AggSpec): every group built by find_matches holds findings of
\* distinct sources, so it holds as many findings as its sources set has
\* members.
C23_GroupSourcesDistinct ==
    \A g \in 1..Len(MatchGroups) :
        LET fs == MatchGroups[g].findings
        IN  /\ \A m, n \in 1..Len(fs) :
                  m # n => At(agg.input, fs[m]).source # At(agg.input, fs[n]).source
            /\ Len(fs) = Cardinality(MatchGroups[g].sources)

\* a >= b for two scores given as fractions
ScoreGeq(a, b) == a.num * b.den >= b.num * a.den

\* the share of tokens two descriptions have in common, as a fraction
Overlap(f, g) ==
    IF f.tokens # {} /\ g.tokens # {}
    THEN [num |-> Cardinality(f.tokens \cap g.tokens),
          den |-> Cardinality(f.tokens \cup g.tokens)]
    ELSE [num |-> 0, den |-> 1]

\* the two findings scored name the same file and the same line
SameFileAndLine ==
    /\ sim.pc = "done"
    /\ sim.finding1.file # "" /\ sim.finding1.file = sim.finding2.file
    /\ sim.finding1.line # 0 /\ sim.finding1.line = sim.finding2.line

\* C24 (SimSpec): the score of two findings naming the same file and the same
\* line is at least 0.4 + 0.3; a second finding that matches the first in at
\* least the attributes this one does (category, severity, description
\* overlap) scores no lower; and every score lies in [0, 1].
C24_SameFileLineScore ==
    /\ sim.pc = "done"
       => /\ sim.score.num >= 0
          /\ sim.score.num <= sim.score.den
    /\ SameFileAndLine
       => /\ 10 * sim.score.num >= 7 * sim.score.den
          /\ \A g \in ScoredFindings :
                (/\ g.file = sim.finding2.file
                 /\ g.line = sim.finding2.line
                 /\ sim.finding2.category = sim.finding1.category
                    => g.category = sim.finding1.category
                 /\ sim.finding2.severity = sim.finding1.severity
                    => g.severity = sim.finding1.severity
                 /\ ScoreGeq(Overlap(sim.finding1, g),
                             Overlap(sim.finding1, sim.finding2)))
                => ScoreGeq(similarity_score(sim.finding1, g), sim.score)

\* two findings that agree on file and line and on nothing else score
\* exactly 0.7
C24_Witness ==
    /\ SameFileAndLine
    /\ sim.finding1.category # sim.finding2.category
    /\ sim.finding1.severity # sim.finding2.severity
    /\ sim.finding1.tokens \cap sim.finding2.tokens = {}
    /\ 10 * sim.score.num = 7 * sim.score.den

\* C25 (SeqSpec): across register_worker, unregister_worker, remove_worker
\* and cleanup_stale_workers calls made one after the other, every id
\* register_worker returns is greater than every id it returned before.
C25_WorkerIdsMonotonic ==
    \A i, j \in 1..Len(hist.regLog) :
        i < j => hist.regLog[i] < hist.regLog[j]

\* the cache keys (cli position, index) of the findings of the input
FindingKeys ==
    {k \in (1..Len(agg.input)) \X (1..MaxFindings) :
        k[2] <= Len(agg.input[k[1]].findings)}

\* C26 (AggSpec): no finding appears twice in the groups find_matches
\* builds, in one group or in two, and the findings marked matched are
\* exactly the members of the groups.
C26_FindingInOneGroup ==
    /\ \A g, h \in 1..Len(MatchGroups) :
          \A m \in 1..Len(MatchGroups[g].findings) :
             \A n \in 1..Len(MatchGroups[h].findings) :
                (g # h \/ m # n)
                => MatchGroups[g].findings[m] # MatchGroups[h].findings[n]
    /\ find_matches(agg.input).matched =
          UNION {SeqToSet(MatchGroups[g].findings) : g \in 1..Len(MatchGroups)}
    /\ find_matches(agg.input).matched \subseteq FindingKeys

\* the aggregation ran on an input where a finding already in a group met the
\* threshold with one more finding of another agent
C26_Witness ==
    /\ agg.output.done
    /\ Len(MatchGroups) = 1
    /\ \E k \in FindingKeys :
          \E m \in 1..Len(MatchGroups[1].findings) :
             LET member == MatchGroups[1].findings[m]
             IN  /\ k # member
                 /\ k # MatchGroups[1].findings[1]
                 /\ k[1] # member[1]
                 /\ MeetsThreshold(similarity_score(At(agg.input, k),
                                                    At(agg.input, member)))

\* C27 (ReviewSpec): when run_parallel_reviews returns after launching, its
\* results hold exactly one entry for each available agent, each with a status
\* among complete, failed, timeout and error, whatever the other agents'
\* outcomes were; and an agent's ending leaves the entries already collected
\* as they are.
C27_OneFinalResultPerAgent ==
    /\ []((review.pc = "done" /\ review.available_clis # <<>>)
          => /\ Len(review.ret.results) = Len(review.available_clis)
             /\ \A i \in 1..Len(review.available_clis) :
                   Cardinality({r \in 1..Len(review.ret.results) :
                       review.ret.results[r].cli = review.available_clis[i]}) = 1
             /\ \A r \in 1..Len(review.ret.results) :
                   review.ret.results[r].status \in
                       {"complete", "failed", "timeout", "error"})
    /\ [][review.pc = "running"
          => /\ Len(review'.results) >= Len(review.results)
             /\ \A r \in 1..Len(review.results) :
                   review'.results[r] = review.results[r]]_vars

\* a run of three agents returned after one completed, one ran out of time
\* and one could not be launched
C27_Witness ==
    /\ review.pc = "done"
    /\ Len(review.available_clis) = 3
    /\ {review.ret.results[r].status : r \in 1..Len(review.ret.results)}
          = {"complete", "timeout", "error"}

\* the review as it would stand had its agents finished in the order perm
Reordered(perm) ==
    LET results == [i \in 1..Len(review.results) |-> review.results[perm[i]]]
        exited == SelectSeq(results, LAMBDA r : r.outcome.kind = "exit")
    IN  [review EXCEPT
            !.results = results,
            !.outputs = [i \in 1..Len(exited) |->
                            output_data(exited[i].cli, exited[i].outcome)]]

\* C28 (ReviewSpec): for the same outputs of the same agents, every order in
\* which the agents finish gives the aggregator the same consensus, majority
\* and unique findings.
C28_AggregationOrderFree ==
    (review.pc = "done" /\ review.available_clis # <<>>)
    => \A perm \in Permutations(1..Len(review.results)) :
          LET a == aggregate_findings(ReviewAggInput(Reordered(perm)))
              b == aggregate_findings(ReviewAggInput(review))
          IN  /\ a.consensus = b.consensus
              /\ a.majority = b.majority
              /\ a.unique = b.unique

\* three agents wrote their output files in an order other than the order
\* they were launched in, and two of their findings were merged
C28_Witness ==
    /\ review.pc = "done"
    /\ Len(review.available_clis) = 3
    /\ Len(review.outputs) = 3
    /\ review.outputs[1].cli = review.available_clis[3]
    /\ Len(aggregate_findings(ReviewAggInput(review)).majority) = 1

\* C30 (TournSeqSpec): in the report get_tournament_status returns, the
\* workers listed with done = true are as many as completion.done, and
\* completion.done plus the pending entries make completion.total.
C30_StatusReportConsistent ==
    \A p \in Procs :
        (/\ pc[p] = "return"
         /\ call[p].op = "get_tournament_status"
         /\ ret[p].kind = "report")
        => /\ Cardinality({i \in 1..Len(ret[p].workers) : ret[p].workers[i].done})
                 = ret[p].completion.done
           /\ ret[p].completion.done + Len(ret[p].completion.pending)
                 = ret[p].completion.total

\* DONE.md exists in every worker's workspace and no call is under way
AllMarkersPresent == TournamentPaths \subseteq markers /\ AllIdle

\* C29 (TournLiveSpec): once DONE.md exists in every worker's workspace, every
\* status poll ends with every worker marked done in the store and reports
\* completion.complete = true; a report made on a complete tournament leaves
\* the status reviewing; and with polls and reports made again and again the
\* tournament does not stay in running.
C29_EventuallyReviewing ==
    /\ [](AllMarkersPresent
          => [](\A p \in Procs :
                  (/\ pc[p] = "return"
                   /\ call[p].op = "get_tournament_status"
                   /\ ret[p].kind = "report")
                  => /\ ret[p].completion.complete
                     /\ \A t \in 1..Len(StoreTournaments) :
                           \A w \in 1..Len(StoreTournaments[t].workers) :
                              StoreTournaments[t].workers[w].done))
    /\ [](\A p \in Procs :
            (/\ pc[p] = "return"
             /\ call[p].op = "generate_review_report"
             /\ completion[p].complete)
            => \A t \in 1..Len(StoreTournaments) :
                  StoreTournaments[t].status = "reviewing")
    /\ (AllMarkersPresent
        ~> \A t \in 1..Len(StoreTournaments) : StoreTournaments[t].status # "running")

\* a report has just set the status to reviewing, after a poll marked the
\* workers done from their marker files
C29_Witness ==
    \E p \in Procs :
        /\ pc[p] = "return"
        /\ call[p].op = "generate_review_report"
        /\ completion[p].complete
        /\ TournamentPaths \subseteq markers
        /\ Len(StoreTournaments) = 1
        /\ StoreTournaments[1].status = "reviewing"
        /\ \A w \in 1..Len(StoreTournaments[1].workers) :
              StoreTournaments[1].workers[w].done_file = DoneFile

=============================================================================
